---- MODULE Spec2Model ----
(***************************************************************************)
(* Model of src/main.py of docling-inference: the bearer-token gate, the   *)
(* conversion invoker (convert_func with _check_conversion_result), and    *)
(* the two request handlers parse_document_url / parse_document_stream     *)
(* with their rendering, debug-logging walk, picture aggregation walk and  *)
(* response assembly.  The docling pipeline is an external collaborator:   *)
(* each call to converter.convert is a nondeterministic choice among the   *)
(* outcomes its interface allows.                                          *)
(***************************************************************************)
EXTENDS Integers, Sequences, FiniteSets, TLC

VARIABLES
    auth_token,      \* app.state.config.auth_token
    pc,              \* position of the request in the application
    request,         \* the HTTP request being served
    data,            \* argument handed to converter.convert
    pipeline_calls,  \* number of converter.convert invocations
    outcome,         \* what converter.convert returned or raised
    exc,             \* exception that left convert_func (NoException if none)
    log,             \* logger.error records, in emission order
    result,          \* handler local `result`
    doc,             \* handler local `doc`
    output,          \* handler local `output`
    json_output,     \* handler local `json_output`
    picture_data,    \* handler local `picture_data`
    debug,           \* logger.debug arguments, in emission order
    iterate_calls,   \* doc.iterate_items() traversals started, by the loop that made them
    caption_calls,   \* self_refs passed through element.caption_text(doc=doc)
    response         \* the HTTP response sent, Null while none

vars == <<auth_token, pc, request, data, pipeline_calls, outcome, exc, log,
          result, doc, output, json_output, picture_data, debug,
          iterate_calls, caption_calls, response>>

(***************************************************************************)
(* Bounds and value universes                                              *)
(***************************************************************************)
\* Size of one pipeline outcome: error records + document items + annotations.
MaxSize == 3

\* Python None where a string is expected / where an object is expected.
None == "None"
Null == [null |-> TRUE]

AuthTokens == {None, "secret"}
Bearers == {None, "secret", "wrong"}
Urls == {"https://example.com/report.pdf"}
FileNames == {None, "report.pdf"}
IncludeJson == BOOLEAN

OutputFormat == {"markdown", "text", "html"}
ConversionStatus == {"SUCCESS", "PARTIAL_SUCCESS", "FAILURE"}
DoclingComponentType == {"USER_INPUT", "DOCUMENT_BACKEND"}

\* Error records: two user-input messages and one internal one.
ErrorItems ==
    { [component_type |-> "USER_INPUT", error_message |-> "unsupported file type"],
      [component_type |-> "USER_INPUT", error_message |-> "corrupt file"],
      [component_type |-> "DOCUMENT_BACKEND", error_message |-> "backend crashed"] }

ClassNames == {"chart", "logo"}

\* Ranked class lists as a classifier or a docling-JSON input can provide
\* them: every class at most once, possibly none.
PredictedClasses ==
    {<< >>} \cup {<<c>> : c \in ClassNames}
            \cup {<<c, d>> : <<c, d>> \in {p \in ClassNames \X ClassNames : p[1] # p[2]}}

PictureClassificationData ==
    {[kind |-> "classification", predicted_classes |-> p] : p \in PredictedClasses}
PictureDescriptionData ==
    {[kind |-> "description", text |-> "A bar chart showing sales."]}
PictureMiscData ==
    {[kind |-> "misc"]}
Annotations == PictureClassificationData \cup PictureDescriptionData \cup PictureMiscData

RECURSIVE AnnotationLists(_)
AnnotationLists(k) ==
    IF k = 0 THEN {<< >>}
    ELSE {Append(l, a) : l \in AnnotationLists(k - 1), a \in Annotations}

\* Document items of size s (the item plus its annotations) with self_ref ref.
Items(s, ref) ==
    (IF s = 1 THEN {[kind |-> "text", self_ref |-> ref]} ELSE {})
    \cup {[kind |-> "picture", self_ref |-> ref, annotations |-> l] :
            l \in AnnotationLists(s - 1)}

\* Documents of size exactly s, as the sequence doc.iterate_items() yields.
RECURSIVE Documents(_)
Documents(s) ==
    IF s = 0 THEN {<< >>}
    ELSE UNION { UNION { {Append(d, n) : n \in Items(t, Len(d) + 1)} :
                         d \in Documents(s - t) } : t \in 1..s }

RECURSIVE ErrorLists(_)
ErrorLists(k) ==
    IF k = 0 THEN {<< >>}
    ELSE {Append(l, e) : l \in ErrorLists(k - 1), e \in ErrorItems}

ConversionResults ==
    UNION { UNION { {[status |-> st, errors |-> e, document |-> d] :
                        st \in {"SUCCESS", "PARTIAL_SUCCESS"},
                        e \in ErrorLists(k), d \in Documents(m)} :
                    m \in 0..(MaxSize - k) } : k \in 0..MaxSize }
    \cup UNION { {[status |-> st, errors |-> e, document |-> << >>] :
                     st \in ConversionStatus \ {"SUCCESS", "PARTIAL_SUCCESS"},
                     e \in ErrorLists(k)} : k \in 0..MaxSize }

PipelineOutcomes ==
    {[raises |-> None, result |-> r] : r \in ConversionResults}
    \cup {[raises |-> "FileNotFoundError"], [raises |-> "RuntimeError"]}

(***************************************************************************)
(* Exceptions and responses                                                *)
(***************************************************************************)
NoException == [type |-> None]
HTTPException(code, detail) == [type |-> "HTTPException", status_code |-> code, detail |-> detail]
IndexError == [type |-> "IndexError"]
PipelineError(name) == [type |-> name]

HTTP_200_OK == 200
HTTP_401_UNAUTHORIZED == 401
HTTP_404_NOT_FOUND == 404
HTTP_422_UNPROCESSABLE_ENTITY == 422
HTTP_500_INTERNAL_SERVER_ERROR == 500

EmptyMapping == [k \in {} |-> k]

ParseResponse(message, status, out, json) ==
    [status_code |-> HTTP_200_OK,
     body |-> [message |-> message, status |-> status,
               data |-> [output |-> out, json_output |-> json]]]

ErrorResponse(e) == [status_code |-> e.status_code, detail |-> e.detail]

\* An exception that is not an HTTPException reaches ingestion_error_handler,
\* which itself raises; the server answers 500 without an envelope.
ingestion_error_handler(e) == [status_code |-> HTTP_500_INTERNAL_SERVER_ERROR]

(***************************************************************************)
(* Conversion invoker                                                      *)
(***************************************************************************)
ErrorLog(error) ==
    [level |-> "error", component |-> error.component_type, message |-> error.error_message]
FileNotFoundLog == [level |-> "error", component |-> "FileNotFoundError", message |-> "File not found error"]

\* Variant of the loop that lets a later user-input record overwrite the
\* message it raises with.
RECURSIVE check_errors_last_message(_, _, _)
check_errors_last_message(errors, i, logged) ==
    IF i > Len(errors)
    THEN [raised |-> HTTPException(HTTP_500_INTERNAL_SERVER_ERROR, Null), logged |-> logged]
    ELSE IF errors[i].component_type = "USER_INPUT"
         THEN LET later == check_errors_last_message(errors, i + 1, logged)
              IN IF later.raised.status_code = HTTP_422_UNPROCESSABLE_ENTITY
                 THEN [raised |-> later.raised, logged |-> logged]
                 ELSE [raised |-> HTTPException(HTTP_422_UNPROCESSABLE_ENTITY,
                                                [message |-> errors[i].error_message]),
                       logged |-> logged]
         ELSE check_errors_last_message(errors, i + 1, Append(logged, ErrorLog(errors[i])))

\* Variant of the loop that logs a record before looking at its origin.
RECURSIVE check_errors_log_first(_, _, _)
check_errors_log_first(errors, i, logged) ==
    IF i > Len(errors)
    THEN [raised |-> HTTPException(HTTP_500_INTERNAL_SERVER_ERROR, Null), logged |-> logged]
    ELSE IF errors[i].component_type = "USER_INPUT"
         THEN [raised |-> HTTPException(HTTP_422_UNPROCESSABLE_ENTITY,
                                        [message |-> errors[i].error_message]),
               logged |-> Append(logged, ErrorLog(errors[i]))]
         ELSE check_errors_log_first(errors, i + 1, Append(logged, ErrorLog(errors[i])))

\* The loop over result.errors from position i on, with `logged` emitted so far.
RECURSIVE check_errors(_, _, _)
check_errors(errors, i, logged) ==
    IF i > Len(errors)
    THEN [raised |-> HTTPException(HTTP_500_INTERNAL_SERVER_ERROR, Null), logged |-> logged]
    ELSE IF errors[i].component_type = "USER_INPUT"
         THEN [raised |-> HTTPException(HTTP_422_UNPROCESSABLE_ENTITY,
                                        [message |-> errors[i].error_message]),
               logged |-> logged]
         ELSE check_errors(errors, i + 1, Append(logged, ErrorLog(errors[i])))

check_conversion_result(r) ==
    IF r.status \in {"SUCCESS", "PARTIAL_SUCCESS"}
    THEN [raised |-> NoException, logged |-> << >>]
    ELSE check_errors(r.errors, 1, << >>)

convert_func(o) ==
    IF o.raises = "FileNotFoundError"
    THEN [result |-> Null,
          raised |-> HTTPException(HTTP_404_NOT_FOUND, [message |-> "Input not found"]),
          logged |-> <<FileNotFoundLog>>]
    ELSE IF o.raises # None
    THEN [result |-> Null, raised |-> PipelineError(o.raises), logged |-> << >>]
    ELSE LET c == check_conversion_result(o.result)
         IN [result |-> IF c.raised = NoException THEN o.result ELSE Null,
             raised |-> c.raised, logged |-> c.logged]

(***************************************************************************)
(* Document collaborator interface                                         *)
(***************************************************************************)
IsPicture(element) == element.kind = "picture"

\* element.caption_text(doc=doc): resolved by the document, per picture.
caption_text(element, d) == [caption_of |-> element.self_ref]

ItemRefs(d) == [i \in DOMAIN d |-> d[i].self_ref]
export_to_markdown(d) == [rendering |-> "markdown", items |-> ItemRefs(d)]
export_to_text(d) == [rendering |-> "text", items |-> ItemRefs(d)]
export_to_html(d) == [rendering |-> "html", items |-> ItemRefs(d)]
export_to_dict(d) == [schema_name |-> "DoclingDocument", body |-> d]

get_output(document, format) ==
    IF format = "markdown" THEN export_to_markdown(document)
    ELSE IF format = "text" THEN export_to_text(document)
    ELSE IF format = "html" THEN export_to_html(document)
    ELSE Null

(***************************************************************************)
(* Debug-logging walk (first traversal of the handlers)                    *)
(***************************************************************************)
\* Annotations of one picture from position i on.
RECURSIVE log_annotations(_, _)
log_annotations(annotations, i) ==
    IF i > Len(annotations) THEN [raised |-> NoException, debug |-> << >>]
    ELSE LET a == annotations[i] IN
         IF a.kind = "classification" /\ a.predicted_classes = << >>
         THEN [raised |-> IndexError, debug |-> << >>]
         ELSE LET rest == log_annotations(annotations, i + 1)
                  line == IF a.kind = "classification" THEN <<a.predicted_classes[1]>>
                          ELSE IF a.kind = "description" THEN <<a.text>>
                          ELSE << >>
              IN [raised |-> rest.raised, debug |-> line \o rest.debug]

\* Variant of the debug walk that logs the self_ref only and leaves the
\* caption unresolved.
RECURSIVE log_pictures_without_caption(_, _)
log_pictures_without_caption(d, i) ==
    IF i > Len(d) THEN [raised |-> NoException, debug |-> << >>, captions |-> << >>]
    ELSE IF ~IsPicture(d[i]) THEN log_pictures_without_caption(d, i + 1)
    ELSE LET el == d[i]
             anns == log_annotations(el.annotations, 1)
         IN IF anns.raised # NoException
            THEN [raised |-> anns.raised, debug |-> <<el.self_ref>> \o anns.debug,
                  captions |-> << >>]
            ELSE LET rest == log_pictures_without_caption(d, i + 1)
                 IN [raised |-> rest.raised,
                     debug |-> <<el.self_ref>> \o anns.debug \o rest.debug,
                     captions |-> rest.captions]

\* Items of the document from position i on.
RECURSIVE log_pictures(_, _)
log_pictures(d, i) ==
    IF i > Len(d) THEN [raised |-> NoException, debug |-> << >>, captions |-> << >>]
    ELSE IF ~IsPicture(d[i]) THEN log_pictures(d, i + 1)
    ELSE LET el == d[i]
             head == <<el.self_ref, caption_text(el, d)>>
             anns == log_annotations(el.annotations, 1)
         IN IF anns.raised # NoException
            THEN [raised |-> anns.raised, debug |-> head \o anns.debug,
                  captions |-> <<el.self_ref>>]
            ELSE LET rest == log_pictures(d, i + 1)
                 IN [raised |-> rest.raised,
                     debug |-> head \o anns.debug \o rest.debug,
                     captions |-> <<el.self_ref>> \o rest.captions]

(***************************************************************************)
(* Picture aggregation walk (second traversal of the handlers)             *)
(***************************************************************************)
\* Variant that surfaces the last predicted class instead of the first.
RECURSIVE picture_annotations_last_class(_, _)
picture_annotations_last_class(annotations, i) ==
    IF i > Len(annotations) THEN [raised |-> NoException, entries |-> << >>]
    ELSE LET a == annotations[i] IN
         IF a.kind = "classification" /\ a.predicted_classes = << >>
         THEN [raised |-> IndexError, entries |-> << >>]
         ELSE LET rest == picture_annotations_last_class(annotations, i + 1)
                  entry == IF a.kind = "classification"
                           THEN <<[type |-> "classification",
                                   predicted_class |->
                                       a.predicted_classes[Len(a.predicted_classes)]]>>
                           ELSE IF a.kind = "description"
                           THEN <<[type |-> "description", text |-> a.text]>>
                           ELSE << >>
              IN [raised |-> rest.raised, entries |-> entry \o rest.entries]

RECURSIVE picture_annotations(_, _)
picture_annotations(annotations, i) ==
    IF i > Len(annotations) THEN [raised |-> NoException, entries |-> << >>]
    ELSE LET a == annotations[i] IN
         IF a.kind = "classification" /\ a.predicted_classes = << >>
         THEN [raised |-> IndexError, entries |-> << >>]
         ELSE LET rest == picture_annotations(annotations, i + 1)
                  entry == IF a.kind = "classification"
                           THEN <<[type |-> "classification",
                                   predicted_class |-> a.predicted_classes[1]]>>
                           ELSE IF a.kind = "description"
                           THEN <<[type |-> "description", text |-> a.text]>>
                           ELSE << >>
              IN [raised |-> rest.raised, entries |-> entry \o rest.entries]

picture_info(element, d, entries) ==
    [self_ref |-> element.self_ref,
     caption_text |-> caption_text(element, d),
     annotations |-> entries]

\* Variant that appends a record only for pictures that carry annotations.
RECURSIVE aggregate_pictures_annotated_only(_, _)
aggregate_pictures_annotated_only(d, i) ==
    IF i > Len(d) THEN [raised |-> NoException, picture_data |-> << >>, captions |-> << >>]
    ELSE IF ~IsPicture(d[i]) THEN aggregate_pictures_annotated_only(d, i + 1)
    ELSE LET el == d[i]
             anns == picture_annotations(el.annotations, 1)
         IN IF anns.raised # NoException
            THEN [raised |-> anns.raised, picture_data |-> << >>,
                  captions |-> <<el.self_ref>>]
            ELSE LET rest == aggregate_pictures_annotated_only(d, i + 1)
                     rec == IF el.annotations = << >> THEN << >>
                            ELSE <<picture_info(el, d, anns.entries)>>
                 IN [raised |-> rest.raised,
                     picture_data |-> rec \o rest.picture_data,
                     captions |-> <<el.self_ref>> \o rest.captions]

RECURSIVE aggregate_pictures(_, _)
aggregate_pictures(d, i) ==
    IF i > Len(d) THEN [raised |-> NoException, picture_data |-> << >>, captions |-> << >>]
    ELSE IF ~IsPicture(d[i]) THEN aggregate_pictures(d, i + 1)
    ELSE LET el == d[i]
             anns == picture_annotations(el.annotations, 1)
         IN IF anns.raised # NoException
            THEN [raised |-> anns.raised, picture_data |-> << >>,
                  captions |-> <<el.self_ref>>]
            ELSE LET rest == aggregate_pictures(d, i + 1)
                 IN [raised |-> rest.raised,
                     picture_data |-> <<picture_info(el, d, anns.entries)>> \o rest.picture_data,
                     captions |-> <<el.self_ref>> \o rest.captions]

\* Variant that starts from a fresh mapping whatever the export was.
with_picture_data_only(json, pictures) == "picture_data" :> pictures

\* json_output = json_output or {}; json_output["picture_data"] = picture_data
with_picture_data(json, pictures) ==
    ("picture_data" :> pictures) @@ (IF json = Null \/ json = EmptyMapping THEN EmptyMapping ELSE json)

SoftFailure ==
    ParseResponse("Document not parsed", "NOk", "Ask Andreas Schiffler", EmptyMapping)

(***************************************************************************)
(* State machine                                                           *)
(***************************************************************************)
Init ==
    /\ auth_token \in AuthTokens
    /\ pc = "idle"
    /\ request = Null
    /\ data = Null
    /\ pipeline_calls = 0
    /\ outcome = Null
    /\ exc = NoException
    /\ log = << >>
    /\ result = Null
    /\ doc = Null
    /\ output = Null
    /\ json_output = Null
    /\ picture_data = << >>
    /\ debug = << >>
    /\ iterate_calls = << >>
    /\ caption_calls = << >>
    /\ response = Null

handler_locals == <<data, pipeline_calls, outcome, exc, log, result, doc, output,
                    json_output, picture_data, debug, iterate_calls, caption_calls>>

\* A client posts to /parse/url.
PostParseUrl ==
    /\ pc = "idle"
    /\ \E b \in Bearers, u \in Urls, f \in OutputFormat, j \in IncludeJson :
          request' = [endpoint |-> "url", bearer |-> b, url |-> u,
                      output_format |-> f, include_json |-> j]
    /\ pc' = "authorize"
    /\ UNCHANGED <<auth_token, handler_locals, response>>

\* A client posts to /parse/file.
PostParseFile ==
    /\ pc = "idle"
    /\ \E b \in Bearers, n \in FileNames, f \in OutputFormat, j \in IncludeJson :
          request' = [endpoint |-> "file", bearer |-> b, filename |-> n,
                      output_format |-> f, include_json |-> j]
    /\ pc' = "authorize"
    /\ UNCHANGED <<auth_token, handler_locals, response>>

\* Variant of the gate that compares the credential only when one was sent.
authorize_header_missing_passes ==
    /\ pc = "authorize"
    /\ IF auth_token = None
       THEN /\ pc' = "handler"
            /\ UNCHANGED response
       ELSE IF request.bearer # None /\ request.bearer # auth_token
       THEN /\ response' = ErrorResponse(HTTPException(HTTP_401_UNAUTHORIZED,
                                                       [message |-> "Unauthorized"]))
            /\ pc' = "done"
       ELSE /\ pc' = "handler"
            /\ UNCHANGED response
    /\ UNCHANGED <<auth_token, request, handler_locals>>

authorize_header ==
    /\ pc = "authorize"
    /\ IF auth_token = None
       THEN /\ pc' = "handler"
            /\ UNCHANGED response
       ELSE IF request.bearer = None \/ request.bearer # auth_token
       THEN /\ response' = ErrorResponse(HTTPException(HTTP_401_UNAUTHORIZED,
                                                       [message |-> "Unauthorized"]))
            /\ pc' = "done"
       ELSE /\ pc' = "handler"
            /\ UNCHANGED response
    /\ UNCHANGED <<auth_token, request, handler_locals>>

\* Variant of the handler's first step without the try/except: what leaves
\* convert_func reaches the framework.
TryConvert_propagating(source) ==
    \E o \in PipelineOutcomes :
        LET c == convert_func(o) IN
        /\ data' = source
        /\ pipeline_calls' = pipeline_calls + 1
        /\ outcome' = o
        /\ exc' = c.raised
        /\ log' = log \o c.logged
        /\ IF c.raised # NoException
           THEN /\ response' = IF c.raised.type = "HTTPException"
                               THEN ErrorResponse(c.raised)
                               ELSE ingestion_error_handler(c.raised)
                /\ pc' = "done"
                /\ UNCHANGED result
           ELSE /\ result' = c.result
                /\ pc' = "render"
                /\ UNCHANGED response
        /\ UNCHANGED <<auth_token, request, doc, output, json_output, picture_data,
                       debug, iterate_calls, caption_calls>>

\* try: result = convert(source) / except: return the soft-failure envelope.
TryConvert(source) ==
    \E o \in PipelineOutcomes :
        LET c == convert_func(o) IN
        /\ data' = source
        /\ pipeline_calls' = pipeline_calls + 1
        /\ outcome' = o
        /\ exc' = c.raised
        /\ log' = log \o c.logged
        /\ IF c.raised # NoException
           THEN /\ response' = SoftFailure
                /\ pc' = "done"
                /\ UNCHANGED result
           ELSE /\ result' = c.result
                /\ pc' = "render"
                /\ UNCHANGED response
        /\ UNCHANGED <<auth_token, request, doc, output, json_output, picture_data,
                       debug, iterate_calls, caption_calls>>

\* doc = result.document; output = ...; json_output = ...
Render ==
    /\ doc' = result.document
    /\ output' = get_output(result.document, request.output_format)
    /\ json_output' = IF request.include_json THEN export_to_dict(result.document) ELSE Null
    /\ pc' = "log_pictures"
    /\ UNCHANGED <<auth_token, request, data, pipeline_calls, outcome, exc, log, result,
                   picture_data, debug, iterate_calls, caption_calls, response>>

\* for element, _level in doc.iterate_items(): logger.debug(...)
LogPictures ==
    LET w == log_pictures(doc, 1) IN
    /\ iterate_calls' = Append(iterate_calls, "debug")
    /\ caption_calls' = caption_calls \o w.captions
    /\ debug' = debug \o w.debug
    /\ IF w.raised # NoException
       THEN /\ response' = ingestion_error_handler(w.raised)
            /\ pc' = "done"
       ELSE /\ pc' = "aggregate"
            /\ UNCHANGED response
    /\ UNCHANGED <<auth_token, request, data, pipeline_calls, outcome, exc, log, result,
                   doc, output, json_output, picture_data>>

\* picture_data = []; for element, _level in doc.iterate_items(): ...
AggregatePictures ==
    LET w == aggregate_pictures(doc, 1) IN
    /\ iterate_calls' = Append(iterate_calls, "aggregate")
    /\ caption_calls' = caption_calls \o w.captions
    /\ picture_data' = w.picture_data
    /\ IF w.raised # NoException
       THEN /\ response' = ingestion_error_handler(w.raised)
            /\ pc' = "done"
       ELSE /\ pc' = "respond"
            /\ UNCHANGED response
    /\ UNCHANGED <<auth_token, request, data, pipeline_calls, outcome, exc, log, result,
                   doc, output, json_output, debug>>

\* json_output = json_output or {}; ...; return ParseResponse(...)
Respond ==
    /\ json_output' = with_picture_data(json_output, picture_data)
    /\ response' = ParseResponse("Document parsed successfully", "Ok", output,
                                 with_picture_data(json_output, picture_data))
    /\ pc' = "done"
    /\ UNCHANGED <<auth_token, request, data, pipeline_calls, outcome, exc, log, result,
                   doc, output, picture_data, debug, iterate_calls, caption_calls>>

parse_document_url_convert ==
    /\ pc = "handler" /\ request.endpoint = "url"
    /\ TryConvert([kind |-> "url", source |-> request.url])

parse_document_url_render ==
    /\ pc = "render" /\ request.endpoint = "url"
    /\ Render

parse_document_url_log ==
    /\ pc = "log_pictures" /\ request.endpoint = "url"
    /\ LogPictures

parse_document_url_aggregate ==
    /\ pc = "aggregate" /\ request.endpoint = "url"
    /\ AggregatePictures

parse_document_url_respond ==
    /\ pc = "respond" /\ request.endpoint = "url"
    /\ Respond

parse_document_stream_convert ==
    /\ pc = "handler" /\ request.endpoint = "file"
    /\ TryConvert([kind |-> "stream",
                   name |-> IF request.filename = None THEN "unset_name"
                            ELSE request.filename])

parse_document_stream_render ==
    /\ pc = "render" /\ request.endpoint = "file"
    /\ Render

parse_document_stream_log ==
    /\ pc = "log_pictures" /\ request.endpoint = "file"
    /\ LogPictures

parse_document_stream_aggregate ==
    /\ pc = "aggregate" /\ request.endpoint = "file"
    /\ AggregatePictures

parse_document_stream_respond ==
    /\ pc = "respond" /\ request.endpoint = "file"
    /\ Respond

Next ==
    \/ PostParseUrl
    \/ PostParseFile
    \/ authorize_header
    \/ parse_document_url_convert
    \/ parse_document_url_render
    \/ parse_document_url_log
    \/ parse_document_url_aggregate
    \/ parse_document_url_respond
    \/ parse_document_stream_convert
    \/ parse_document_stream_render
    \/ parse_document_stream_log
    \/ parse_document_stream_aggregate
    \/ parse_document_stream_respond

Spec == Init /\ [][Next]_vars

(***************************************************************************)
(* Vocabulary of the properties                                            *)
(***************************************************************************)
Converted == pipeline_calls = 1
PipelineReturned == Converted /\ outcome.raises = None
NonFatal == PipelineReturned /\ outcome.result.status \in {"SUCCESS", "PARTIAL_SUCCESS"}
FatalResult == PipelineReturned /\ outcome.result.status \notin {"SUCCESS", "PARTIAL_SUCCESS"}
Fatal == Converted /\ (outcome.raises # None \/ FatalResult)

Answered == pc = "done" /\ response # Null
IsEnvelope == Answered /\ response.status_code = HTTP_200_OK
AnsweredOk == IsEnvelope /\ response.body.status = "Ok"
AnsweredNOk == IsEnvelope /\ response.body.status = "NOk"

UserInputPositions(errors) == {i \in DOMAIN errors : errors[i].component_type = "USER_INPUT"}
HasUserInput(errors) == UserInputPositions(errors) # {}
FirstUserInput(errors) ==
    CHOOSE i \in UserInputPositions(errors) : \A j \in UserInputPositions(errors) : i <= j

PictureNodes(d) == SelectSeq(d, IsPicture)
Refs(items) == [i \in DOMAIN items |-> items[i].self_ref]
IsSurfacedKind(a) == a.kind \in {"classification", "description"}
Surfaced(a) ==
    IF a.kind = "classification"
    THEN [type |-> "classification", predicted_class |-> Head(a.predicted_classes)]
    ELSE [type |-> "description", text |-> a.text]
HasKey(m, k) == k \in DOMAIN m
Extends(m, base) == \A k \in DOMAIN base : k \in DOMAIN m /\ m[k] = base[k]
NoDuplicates(q) == \A i, j \in DOMAIN q : q[i] = q[j] => i = j

(***************************************************************************)
(* C1                                                                      *)
(***************************************************************************)
\* C1: a request whose conversion ended fatally is answered with the HTTP
\* status of its failure class: 422 carrying exactly the message of the
\* pipeline's user-input record, 404 for a source that is not found, 500
\* without the pipeline's message for every other fatal outcome.
C1_FatalConversionHttpStatus ==
    (Answered /\ Fatal) =>
        IF outcome.raises = "FileNotFoundError"
        THEN response.status_code = HTTP_404_NOT_FOUND
        ELSE IF outcome.raises = None /\ HasUserInput(outcome.result.errors)
        THEN /\ response.status_code = HTTP_422_UNPROCESSABLE_ENTITY
             /\ response.detail =
                  [message |-> outcome.result.errors[FirstUserInput(outcome.result.errors)].error_message]
        ELSE response.status_code = HTTP_500_INTERNAL_SERVER_ERROR

(***************************************************************************)
(* C2                                                                      *)
(***************************************************************************)
\* C2: the conversion invoker signals 422 with the message of the first
\* user-input record in list order when the fatal result has one, 500 with
\* no pipeline message when it has none (the empty list included), and 404
\* with "Input not found" when the pipeline call raised FileNotFoundError.
C2_InvokerClassification ==
    /\ (Converted /\ outcome.raises = "FileNotFoundError") =>
          exc = HTTPException(HTTP_404_NOT_FOUND, [message |-> "Input not found"])
    /\ FatalResult =>
          LET errors == outcome.result.errors IN
          IF HasUserInput(errors)
          THEN exc = HTTPException(HTTP_422_UNPROCESSABLE_ENTITY,
                                   [message |-> errors[FirstUserInput(errors)].error_message])
          ELSE exc = HTTPException(HTTP_500_INTERNAL_SERVER_ERROR, Null)

\* A fatal result whose first user-input record is neither the first record
\* nor the only user-input record, classified as 422.
C2_Witness ==
    /\ FatalResult
    /\ UserInputPositions(outcome.result.errors) = {2, 3}
    /\ outcome.result.errors[2].error_message # outcome.result.errors[3].error_message
    /\ exc.type = "HTTPException"
    /\ exc.status_code = HTTP_422_UNPROCESSABLE_ENTITY

(***************************************************************************)
(* C3                                                                      *)
(***************************************************************************)
\* C3: when convert_func raised, the handler answers with the soft-failure
\* envelope (HTTP 200, status "NOk", placeholder output, empty json_output
\* without a picture_data key) and neither renders nor walks the document.
C3_SoftFailureEnvelope ==
    (exc # NoException) =>
        /\ AnsweredNOk
        /\ response.body.message = "Document not parsed"
        /\ response.body.data.output = "Ask Andreas Schiffler"
        /\ DOMAIN response.body.data.json_output = {}
        /\ ~HasKey(response.body.data.json_output, "picture_data")
        /\ output = Null
        /\ iterate_calls = << >>
        /\ caption_calls = << >>
        /\ picture_data = << >>

\* The file handler swallowing a 422 classification.
C3_Witness ==
    /\ pc = "done"
    /\ request.endpoint = "file"
    /\ exc.type = "HTTPException"
    /\ exc.status_code = HTTP_422_UNPROCESSABLE_ENTITY
    /\ response.body.status = "NOk"

(***************************************************************************)
(* C4                                                                      *)
(***************************************************************************)
\* C4: whenever the pipeline reports SUCCESS or PARTIAL_SUCCESS, whatever
\* error records the result carries, the invoker raises nothing, returns the
\* pipeline's result unchanged, and the request ends answered with "Ok".
C4_NonFatalAnsweredOk ==
    NonFatal =>
        /\ exc = NoException
        /\ result = outcome.result
        /\ (pc = "done" => AnsweredOk)

C6_AnnotationImage ==
    AnsweredOk =>
        LET pd == response.body.data.json_output["picture_data"]
            pics == PictureNodes(outcome.result.document)
        IN \A i \in DOMAIN pics :
              LET src == SelectSeq(pics[i].annotations, IsSurfacedKind)
              IN /\ i \in DOMAIN pd
                 /\ Len(pd[i].annotations) = Len(src)
                 /\ \A j \in DOMAIN src : pd[i].annotations[j] = Surfaced(src[j])

\* An "Ok" answer for a picture with a two-class classification followed by
\* a description.
C6_Witness ==
    /\ AnsweredOk
    /\ Len(doc) = 1 /\ doc[1].kind = "picture"
    /\ Len(doc[1].annotations) = 2
    /\ doc[1].annotations[1].kind = "classification"
    /\ Len(doc[1].annotations[1].predicted_classes) = 2
    /\ doc[1].annotations[2].kind = "description"

(***************************************************************************)
(* C7                                                                      *)
(***************************************************************************)
\* C7 as stated: in every response envelope json_output is null, or it is the
\* document's full structural export with an added picture_data key.
C7_JsonOutputIsExportWithPictures ==
    IsEnvelope =>
        LET j == response.body.data.json_output IN
        \/ j = Null
        \/ /\ NonFatal
           /\ Extends(j, export_to_dict(outcome.result.document))
           /\ HasKey(j, "picture_data")

\* C7 amended: json_output of an envelope is never null; in an "Ok" envelope
\* it always has the picture_data key holding the aggregated list, on top of
\* the full structural export when include_json is true and as the only key
\* when include_json is false; in a "NOk" envelope it is the empty mapping.
C7_JsonOutputShape ==
    IsEnvelope =>
        LET j == response.body.data.json_output IN
        /\ j # Null
        /\ AnsweredOk =>
              /\ HasKey(j, "picture_data")
              /\ j["picture_data"] = picture_data
              /\ IF request.include_json
                 THEN /\ Extends(j, export_to_dict(outcome.result.document))
                      /\ DOMAIN j = DOMAIN export_to_dict(outcome.result.document)
                                      \cup {"picture_data"}
                 ELSE DOMAIN j = {"picture_data"}
        /\ AnsweredNOk => DOMAIN j = {}

\* An "Ok" answer with the structural export requested, for a document with
\* a picture.
C7_Witness ==
    /\ AnsweredOk
    /\ request.include_json
    /\ Len(response.body.data.json_output["picture_data"]) >= 1

(***************************************************************************)
(* C8                                                                      *)
(***************************************************************************)
\* C8: without a configured token every request passes the gate whatever
\* its bearer; with a token, a missing or different bearer is answered 401
\* and the pipeline is never called for it, an equal bearer passes.
C8_AuthenticationGate ==
    (pc \notin {"idle", "authorize"}) =>
        IF auth_token = None \/ request.bearer = auth_token
        THEN /\ pc = "handler" \/ Converted
             /\ response # Null => response.status_code # HTTP_401_UNAUTHORIZED
        ELSE /\ pc = "done"
             /\ response = [status_code |-> HTTP_401_UNAUTHORIZED,
                            detail |-> [message |-> "Unauthorized"]]
             /\ pipeline_calls = 0

\* A request without credential rejected while a token is configured.
C8_Witness ==
    /\ auth_token = "secret"
    /\ pc = "done"
    /\ request.bearer = None
    /\ response.status_code = HTTP_401_UNAUTHORIZED

(***************************************************************************)
(* C9                                                                      *)
(***************************************************************************)
\* C9 as stated: for a fatal result every error record of the list is
\* logged, the user-input records and those after them included, and only the
\* first user-input message is surfaced.
C9_EveryErrorRecordLogged ==
    FatalResult =>
        LET errors == outcome.result.errors IN
        /\ log = [i \in DOMAIN errors |-> ErrorLog(errors[i])]
        /\ HasUserInput(errors) =>
              exc.detail = [message |-> errors[FirstUserInput(errors)].error_message]

\* C9 amended: for a fatal result the records before the first user-input
\* record are logged, in list order, and nothing else is (every record when
\* there is no user-input record); the first user-input record and the
\* records after it are not logged; only the first user-input message is
\* surfaced.
C9_LoggedUpToFirstUserInput ==
    FatalResult =>
        LET errors == outcome.result.errors
            n == IF HasUserInput(errors) THEN FirstUserInput(errors) - 1 ELSE Len(errors)
        IN /\ log = [i \in 1..n |-> ErrorLog(errors[i])]
           /\ HasUserInput(errors) =>
                 exc.detail = [message |-> errors[FirstUserInput(errors)].error_message]

\* A fatal result with a user-input record between two backend records.
C9_Witness ==
    /\ FatalResult
    /\ Len(outcome.result.errors) = 3
    /\ UserInputPositions(outcome.result.errors) = {2}
    /\ Len(log) = 1

(***************************************************************************)
(* C10                                                                     *)
(***************************************************************************)
\* C10 as stated: in a request answered "Ok" the document is traversed
\* exactly once and no picture's caption is resolved more than once.
C10_SingleWalk ==
    AnsweredOk =>
        /\ Len(iterate_calls) = 1
        /\ NoDuplicates(caption_calls)

\* C10 amended: the walk that builds picture_data runs exactly once per
\* request answered "Ok", after the conversion call returned and on the
\* document that was rendered, but it is the second of two full traversals
\* (the debug-logging walk comes first), so each picture's caption is
\* resolved exactly twice; no request traverses more than twice.
C10_AggregationAfterDebugWalk ==
    /\ (iterate_calls # << >>) =>
          /\ NonFatal
          /\ doc = outcome.result.document
          /\ output = get_output(outcome.result.document, request.output_format)
          /\ iterate_calls \in {<<"debug">>, <<"debug", "aggregate">>}
    /\ AnsweredOk =>
          /\ iterate_calls = <<"debug", "aggregate">>
          /\ caption_calls = Refs(PictureNodes(doc)) \o Refs(PictureNodes(doc))

\* An "Ok" answer for a document with two pictures, four captions resolved.
C10_Witness ==
    /\ AnsweredOk
    /\ Len(PictureNodes(doc)) = 2
    /\ Len(caption_calls) = 4

====
